---------------------------- MODULE Spec2Model ----------------------------
(***************************************************************************)
(* Entity candidate resolution pipeline of the analyser:                   *)
(*   person_extractor.extract_personalities_from_document  (per document)  *)
(*   context_analyser/main.process_dir, analyser/main.process_dir (corpus) *)
(* and the scrapy spiders that collect the corpus:                         *)
(*   habrahabr_kotlin.HabrahabrKotlinSpider   (page count, start_requests) *)
(*   github.GitHubTopicsSpider                (__open_page)                *)
(*   market_demand habrahabr.HabrahabrArticlesSpider, github, habrahabr    *)
(*                                            (parse of a listing page)    *)
(*                                                                         *)
(* Strings are sequences of symbols.  A symbol is one character, or one    *)
(* bracketed qualifier kept as a unit.  The Cyrillic literals of the       *)
(* source are transliterated:                                              *)
(*   "(kompaniya)"        the qualifier "(company)"                        *)
(*   "(sotsialnaya set)"  the qualifier "(social network)"                 *)
(*   "i"                  a Russian stop word ("and")                      *)
(*   "Kategoriya:..."     the category labels                              *)
(***************************************************************************)
EXTENDS Integers, Sequences, FiniteSets, TLC

(***************************************************************************)
(* Bounds of the model.                                                    *)
(***************************************************************************)
\* size of the corpus: a document counts for its spans, an empty one for one
MaxSpans == 2
MaxResults == 2
MaxCategories == 2
\* most_common on its own: the length of the folded list, the largest K
MaxFolded == 4
MaxK == 3
\* folding on its own: the number of documents of the corpus
MaxDocs == 3
\* the spiders: the pagination links of a page and the largest page number,
\* the answers urlopen has ready, the links of a listing page, the listing
\* pages of a crawl
MaxLinks == 4
MaxPage == 3
MaxOutcomes == 3
MaxListingLinks == 2
MaxListings == 2

(***************************************************************************)
(* Strings: str.lower(), str.strip(), concatenation.                       *)
(***************************************************************************)
LowerChar(ch) ==
    CASE ch = "A" -> "a"
      [] ch = "B" -> "b"
      [] ch = "I" -> "i"
      [] ch = "(Kompaniya)" -> "(kompaniya)"
      [] ch = "(Sotsialnaya set)" -> "(sotsialnaya set)"
      [] OTHER -> ch

lower(s) == [k \in 1..Len(s) |-> LowerChar(s[k])]

RECURSIVE lstrip(_)
lstrip(s) == IF s # <<>> /\ Head(s) = " " THEN lstrip(Tail(s)) ELSE s

RECURSIVE rstrip(_)
rstrip(s) ==
    IF s # <<>> /\ s[Len(s)] = " " THEN rstrip(SubSeq(s, 1, Len(s) - 1)) ELSE s

strip(s) == rstrip(lstrip(s))

Range(s) == {s[k] : k \in 1..Len(s)}

SeqsUpTo(S, n) == UNION {[1..k -> S] : k \in 0..n}

(***************************************************************************)
(* natasha_adapter: the stop words.  The raw lines stand for the contents  *)
(* of the raw_stopwords/*.txt files, NltkStopWords for                     *)
(* stopwords.words('russian').                                             *)
(***************************************************************************)
RawStopWordLines == {<<"I", " ">>}

NltkStopWords == {<<"i">>}

prepare_stop_words == {lower(strip(w)) : w \in RawStopWordLines} \cup NltkStopWords

STOP_WORDS == prepare_stop_words

(***************************************************************************)
(* person_extractor: the stop categories and the personality types.       *)
(***************************************************************************)
STOP_WIKI_CATEGORIES ==
    { "Kategoriya:Stranitsy znachenii po alfavitu",
      "Kategoriya:Gosudarstva po alfavitu",
      "Kategoriya:Literaturnye proizvedeniya po alfavitu",
      "Kategoriya:Naselennye punkty po alfavitu",
      "Kategoriya:Filmy po alfavitu",
      "Kategoriya:Blokchein",
      "Kategoriya:Programmnoe obespechenie po alfavitu",
      "Kategoriya:Kriptografiya",
      "Kategoriya:Kriptovalyuty",
      "Kategoriya:Muzei po alfavitu" }

\* __order__: the iteration order of `for t in PersonalityType`.
PersonalityType == <<"INDIVIDUAL", "COMPANY", "MEDIA_GROUP", "UNVERIFIED">>

\* faulty variant: UNVERIFIED is given a label of its own
TypeCategories_unverified_label(t) ==
    CASE t = "INDIVIDUAL" -> <<"Kategoriya:Personalii po alfavitu">>
      [] t = "COMPANY" -> <<"Kategoriya:Kompanii po alfavitu",
                            "Kategoriya:Saity po alfavitu">>
      [] t = "MEDIA_GROUP" -> <<"Kategoriya:Muzykalnye kollektivy po alfavitu">>
      [] t = "UNVERIFIED" -> <<"Kategoriya:Rodivshiesya v Moskve">>

TypeCategories(t) ==
    CASE t = "INDIVIDUAL" -> <<"Kategoriya:Personalii po alfavitu">>
      [] t = "COMPANY" -> <<"Kategoriya:Kompanii po alfavitu",
                            "Kategoriya:Saity po alfavitu">>
      [] t = "MEDIA_GROUP" -> <<"Kategoriya:Muzykalnye kollektivy po alfavitu">>
      [] t = "UNVERIFIED" -> <<>>

\* self.__categories.count(category) != 0
accepts_category(t, category) ==
    Cardinality({k \in 1..Len(TypeCategories(t)) : TypeCategories(t)[k] = category}) # 0

None == "None"

(***************************************************************************)
(* The two frozen dataclasses.  dataclass(frozen=True) generates __eq__    *)
(* (same class and equal field tuples) and __hash__ (of the field tuple);  *)
(* a value is its class with its field tuple, so = is the generated __eq__.*)
(***************************************************************************)
WikiPersonality(fullname_, wiki_link, type_) ==
    [cls |-> "WikiPersonality", fields |-> <<fullname_, wiki_link, type_>>]

UnverifiedPersonality(fullname_) ==
    [cls |-> "UnverifiedPersonality", fields |-> <<fullname_>>]

fullname(p) == p.fields[1]

source(p) == IF p.cls = "WikiPersonality" THEN p.fields[2] ELSE None

\* faulty variant: the type property of UnverifiedPersonality pasted into both classes
type_always_unverified(p) == "UNVERIFIED"

type(p) == IF p.cls = "WikiPersonality" THEN p.fields[3] ELSE "UNVERIFIED"

\* the generated __hash__: hash of the tuple of fields (tuple hashing is taken
\* to be collision free)
HashKey(p) == p.fields


(***************************************************************************)
(* Inputs of the model: the annotated spans a document can hold, the       *)
(* titles a search can return, and the pages a fetch can return.           *)
(***************************************************************************)
NoFact == [has |-> FALSE, dict |-> <<>>]

Fact(d) == [has |-> TRUE, dict |-> d]

SpanPool ==
    { [normal |-> <<"i">>, fact |-> NoFact],
      [normal |-> <<"I">>, fact |-> NoFact],
      [normal |-> <<"i">>, fact |-> Fact([first |-> <<"A">>])],
      [normal |-> <<"a">>, fact |-> NoFact],
      [normal |-> <<"A">>, fact |-> Fact([first |-> <<"A">>])],
      [normal |-> <<"A", " ", "B">>, fact |-> Fact([first |-> <<"A">>, last |-> <<"B">>])],
      [normal |-> <<"A">>, fact |-> Fact(<<>>)],
      [normal |-> <<"A", " ", "i">>, fact |-> Fact([first |-> <<"i">>])] }

TitlePool ==
    { <<"A">>,
      <<"a", " ", "(kompaniya)">>,
      <<"A", " ", "(Kompaniya)">>,
      <<"A", " ", "(Sotsialnaya set)">> }

\* the canonical title and url of the pages the knowledge base holds
PageIdPool ==
    { [title |-> <<"A", " ", "(kompaniya)">>,
       url |-> "https://ru.wikipedia.org/wiki/A_(kompaniya)"] }

CategoryPool ==
    { "Kategoriya:Personalii po alfavitu",
      "Kategoriya:Kompanii po alfavitu",
      "Kategoriya:Blokchein",
      "Kategoriya:Rodivshiesya v Moskve" }

PagePool ==
    { [title |-> id.title, url |-> id.url, categories |-> cs] :
        id \in PageIdPool, cs \in SeqsUpTo(CategoryPool, MaxCategories) }

NoPage == [title |-> <<>>, url |-> None, categories |-> <<>>]

Min(S) == CHOOSE x \in S : \A y \in S : x <= y

Max(S) == CHOOSE x \in S : \A y \in S : y <= x

(***************************************************************************)
(* extract_personalities_from_document, lines 126-137: the candidate of    *)
(* one span, <<>> when the span is skipped and <<candidate>> otherwise.    *)
(***************************************************************************)
\* faulty variant: the full name is not stripped
span_candidate_no_strip(span) ==
    IF span.normal \in STOP_WORDS THEN <<>>
    ELSE IF span.fact.has
         THEN LET fact_dict == span.fact.dict
                  first_name == IF "first" \in DOMAIN fact_dict THEN fact_dict.first ELSE <<>>
                  last_name == IF "last" \in DOMAIN fact_dict THEN fact_dict.last ELSE <<>>
              IN  << first_name \o <<" ">> \o last_name >>
         ELSE << span.normal >>

span_candidate(span) ==
    IF span.normal \in STOP_WORDS THEN <<>>
    ELSE IF span.fact.has
         THEN LET fact_dict == span.fact.dict
                  first_name == IF "first" \in DOMAIN fact_dict THEN fact_dict.first ELSE <<>>
                  last_name == IF "last" \in DOMAIN fact_dict THEN fact_dict.last ELSE <<>>
              IN  << strip(first_name \o <<" ">> \o last_name) >>
         ELSE << span.normal >>

extract_candidates(ss) == UNION {Range(span_candidate(ss[k])) : k \in 1..Len(ss)}

(***************************************************************************)
(* Lines 156-172: the title chosen among the search results.              *)
(***************************************************************************)
FirstIndex(wiki_personalities_, wanted) ==
    LET hits == {k \in 1..Len(wiki_personalities_) : lower(wiki_personalities_[k]) = wanted}
    IN  IF hits = {} THEN 0 ELSE Min(hits)

\* faulty variant: the titles are compared as they are, without lower()
choose_title_case_sensitive(personality_, wiki_personalities_) ==
    LET at(wanted) ==
            {k \in 1..Len(wiki_personalities_) : wiki_personalities_[k] = wanted}
        company == at(lower(personality_) \o <<" ", "(kompaniya)">>)
        social == at(lower(personality_) \o <<" ", "(sotsialnaya set)">>)
    IN  IF company # {} THEN wiki_personalities_[Min(company)]
        ELSE IF social # {} THEN wiki_personalities_[Min(social)]
        ELSE wiki_personalities_[1]

choose_title(personality_, wiki_personalities_) ==
    LET company == FirstIndex(wiki_personalities_,
                              lower(personality_) \o <<" ", "(kompaniya)">>)
        social == FirstIndex(wiki_personalities_,
                             lower(personality_) \o <<" ", "(sotsialnaya set)">>)
    IN  IF company # 0 THEN wiki_personalities_[company]
        ELSE IF social # 0 THEN wiki_personalities_[social]
        ELSE wiki_personalities_[1]

(***************************************************************************)
(* Lines 179-188: the loop over page.categories.  Each category sets       *)
(* personality_type to the first type of PersonalityType accepting it; the *)
(* loop stops at the first stop category.                                  *)
(***************************************************************************)
first_accepting(category) ==
    LET hits == {j \in 1..Len(PersonalityType) : accepts_category(PersonalityType[j], category)}
    IN  IF hits = {} THEN None ELSE PersonalityType[Min(hits)]

\* faulty variant: the loop over the categories stops at the first recognised one
RECURSIVE scan_categories_first_type(_, _, _)
scan_categories_first_type(categories, k, personality_type) ==
    IF k > Len(categories)
    THEN [personality_type |-> personality_type, encountered_stop_category |-> None]
    ELSE LET category == categories[k]
         IN  IF first_accepting(category) # None
             THEN [personality_type |-> first_accepting(category),
                   encountered_stop_category |-> None]
             ELSE IF category \in STOP_WIKI_CATEGORIES
             THEN [personality_type |-> personality_type,
                   encountered_stop_category |-> category]
             ELSE scan_categories_first_type(categories, k + 1, personality_type)

RECURSIVE scan_categories(_, _, _)
scan_categories(categories, k, personality_type) ==
    IF k > Len(categories)
    THEN [personality_type |-> personality_type, encountered_stop_category |-> None]
    ELSE LET category == categories[k]
             t == IF first_accepting(category) # None
                  THEN first_accepting(category) ELSE personality_type
         IN  IF category \in STOP_WIKI_CATEGORIES
             THEN [personality_type |-> t, encountered_stop_category |-> category]
             ELSE scan_categories(categories, k + 1, t)

classify_page(page) == scan_categories(page.categories, 1, None)

\* actual_personalities.add(...) (lines 153, 203, 207), for the elements a
\* candidate emits
\* faulty variant: the output set is assigned, not added to
set_add_assign(S, emitted) == emitted

set_add(S, emitted) == S \cup emitted

\* faulty variant: an empty search is skipped like a failed one
no_results_outcome_skip(personality_) == {}

\* lines 150-154: what a candidate without search results adds
no_results_outcome(personality_) == {UnverifiedPersonality(personality_)}

\* faulty variant: the Verified entity is named after the candidate
page_outcome_candidate_name(personality_, page) ==
    LET r == classify_page(page)
    IN  IF r.encountered_stop_category # None THEN {}
        ELSE IF r.personality_type # None
             THEN {WikiPersonality(personality_, page.url, r.personality_type)}
             ELSE {UnverifiedPersonality(personality_)}

\* faulty variant: a recognised page adds the Unverified entity as well
page_outcome_both(personality_, page) ==
    LET r == classify_page(page)
    IN  IF r.encountered_stop_category # None THEN {}
        ELSE IF r.personality_type # None
             THEN {WikiPersonality(page.title, page.url, r.personality_type),
                   UnverifiedPersonality(personality_)}
             ELSE {UnverifiedPersonality(personality_)}

\* lines 190-207: what the candidate adds to actual_personalities
page_outcome(personality_, page) ==
    LET r == classify_page(page)
    IN  IF r.encountered_stop_category # None THEN {}
        ELSE IF r.personality_type # None
             THEN {WikiPersonality(page.title, page.url, r.personality_type)}
             ELSE {UnverifiedPersonality(personality_)}

page_kind(page) ==
    LET r == classify_page(page)
    IN  IF r.encountered_stop_category # None THEN "vetoed"
        ELSE IF r.personality_type # None THEN "verified" ELSE "unverified"

\* faulty variant: the handler ends the loop (break for continue)
after_exception_break(remaining, failed) == {}

\* faulty variant: the handler puts the candidate back to be tried again
after_exception_retry(remaining, failed) == remaining \cup {failed}

\* lines 208-211, except WikipediaException: continue.  What is left of the
\* loop once the call for candidate `failed` has raised.
after_exception(remaining, failed) == remaining

(***************************************************************************)
(* process_dir: list.extend over a set (any iteration order), and Counter. *)
(***************************************************************************)
\* faulty variant: the list is rebound to the last document's entities
list_extend_rebind(list, items) == items

\* faulty variant: only the first document to bring entities is folded
list_extend_first_only(list, items) == IF list = <<>> THEN items ELSE list

\* personalities.extend(p), the elements of p taken in the order `items`
list_extend(list, items) == list \o items

\* faulty variant: the iteration may stop before the end of the set
RECURSIVE Orders_prefixes(_)
Orders_prefixes(S) ==
    {<<>>} \cup UNION {{<<x>> \o o : o \in Orders_prefixes(S \ {x})} : x \in S}

RECURSIVE Orders(_)
Orders(S) ==
    IF S = {} THEN {<<>>}
    ELSE UNION {{<<x>> \o o : o \in Orders(S \ {x})} : x \in S}

\* a per-document set is a Python set: unhashable
SetItem(S) == [cls |-> "set", fields |-> S]

Hashable(x) == x.cls # "set"

\* faulty variant: every key is counted once
Counter_keys_once(list) ==
    IF \E k \in 1..Len(list) : ~Hashable(list[k])
    THEN [error |-> "TypeError", counts |-> <<>>]
    ELSE [error |-> None, counts |-> [p \in Range(list) |-> 1]]

Counter(list) ==
    IF \E k \in 1..Len(list) : ~Hashable(list[k])
    THEN [error |-> "TypeError", counts |-> <<>>]
    ELSE [error |-> None,
          counts |-> [p \in Range(list) |-> Cardinality({k \in 1..Len(list) : list[k] = p})]]

NoCounter == [error |-> None, counts |-> <<>>]

\* a Counter is a dict: its keys are kept in the order of their first insertion
RECURSIVE first_seen(_)
first_seen(list) ==
    IF list = <<>> THEN <<>>
    ELSE LET before == first_seen(SubSeq(list, 1, Len(list) - 1))
             x == list[Len(list)]
         IN  IF x \in Range(before) THEN before ELSE Append(before, x)

\* counter.items(): the <<key, count>> pairs in the order of the keys
Counter_items(list) ==
    LET keys == first_seen(list)
    IN  [i \in 1..Len(keys) |-> <<keys[i], Counter(list).counts[keys[i]]>>]

\* sorted(items, key=itemgetter(1), reverse=True): a stable sort, so an item
\* goes behind the items that came before it and count as much or more
RECURSIVE sorted_by_count(_)
sorted_by_count(items) ==
    IF items = <<>> THEN <<>>
    ELSE LET front == sorted_by_count(SubSeq(items, 1, Len(items) - 1))
             it == items[Len(items)]
             ahead == Cardinality({i \in 1..Len(front) : front[i][2] >= it[2]})
         IN  SubSeq(front, 1, ahead) \o <<it>> \o SubSeq(front, ahead + 1, Len(front))

\* faulty variant: the first n items as they are, without sorting
most_common_unsorted(items, n) ==
    SubSeq(items, 1, IF n < Len(items) THEN n ELSE Len(items))

\* Counter.most_common(n) = heapq.nlargest(n, items, key=itemgetter(1)),
\* which is sorted(items, key=itemgetter(1), reverse=True)[:n]
most_common(items, n) ==
    SubSeq(sorted_by_count(items), 1, IF n < Len(items) THEN n ELSE Len(items))

\* counter.most_common(10)
TopK == 10

NoTop == [n |-> 0, entries |-> <<>>]

\* the knowledge base of the order-independence runs: no response yet
NoKb == [search |-> <<>>, page |-> <<>>]

(***************************************************************************)
(* State.                                                                  *)
(***************************************************************************)
VARIABLES
    pc,                    \* "scan" | "resolve" | "page" | "fetch" | "next" | "done"
                           \* | "aborted"
    corpus_size,           \* size of the files processed so far
    spans,                 \* document.spans, until the candidate loop starts
    span_out,              \* per span: <<>> (skipped) or <<candidate>>
    personalities,         \* the candidate set of the current document
    todo,                  \* candidates the for loop has not reached yet
    personality,           \* the loop variable
    wiki_personalities,    \* the search results, until wikipedia.page is called
    wiki_personality,      \* the chosen title
    actual_personalities,  \* the output set of the current document
    trace,                 \* what each handled candidate of the document did
    last,                  \* the candidate the loop body has just handled
    collected,             \* context_analyser/main.py: personalities (extend)
    collected_sets,        \* analyser/main.py: personalities (append)
    counter,               \* context_analyser/main.py: Counter(personalities)
    counter_sets,          \* analyser/main.py: Counter(personalities)
    returned,              \* the set each document's extraction returned
    top,                   \* context_analyser/main.py: counter.most_common(K)
    kb,                    \* the responses of the knowledge base, when fixed
    runs,                  \* what the candidate loop returned, per order run
    sp_pc,                 \* the spiders: "idle" | "new" | "built" | "started"
                           \* | "failed" | "opened" | "crawling"
    site,                  \* the spiders: what the site answers
    path_to_failed_dir,    \* spider.__path_to_failed_dir
    total_pages_to_parse,  \* spider.__total_pages_to_parse
    requests,              \* the requests start_requests has yielded
    opened,                \* what __open_page returned or raised
    articles_data          \* spider.__articles_data / __topic_data

vars == <<pc, corpus_size, spans, span_out, personalities, todo, personality,
          wiki_personalities, wiki_personality, actual_personalities, trace,
          last, collected, collected_sets, counter, counter_sets, returned,
          top, kb, runs, sp_pc, site, path_to_failed_dir,
          total_pages_to_parse, requests, opened, articles_data>>

spider_vars == <<sp_pc, site, path_to_failed_dir, total_pages_to_parse,
                 requests, opened, articles_data>>

NoTotal == [raises |-> None, value |-> 0]

NoOpened ==
    [raises |-> None, code |-> 0, requests |-> 0, sleeps |-> 0,
     previously_failed |-> FALSE]

\* no spider has been constructed
SpiderIdle ==
    /\ sp_pc = "idle"
    /\ site = <<>>
    /\ path_to_failed_dir = None
    /\ total_pages_to_parse = NoTotal
    /\ requests = <<>>
    /\ opened = NoOpened
    /\ articles_data = <<>>

NoLast == [kind |-> "none", cand |-> <<>>, page |-> NoPage, emitted |-> {},
           before |-> {}, searches |-> 0, fetches |-> 0]

Init ==
    /\ pc = "scan"
    /\ corpus_size = 0
    /\ spans = <<>>
    /\ span_out = <<>>
    /\ personalities = {}
    /\ todo = {}
    /\ personality = <<>>
    /\ wiki_personalities = <<>>
    /\ wiki_personality = <<>>
    /\ actual_personalities = {}
    /\ trace = {}
    /\ last = NoLast
    /\ collected = <<>>
    /\ collected_sets = <<>>
    /\ counter = NoCounter
    /\ counter_sets = NoCounter
    /\ returned = <<>>
    /\ top = NoTop
    /\ kb = NoKb
    /\ runs = {}
    /\ SpiderIdle

dir_vars == <<collected, collected_sets, counter, counter_sets, corpus_size,
              returned, top, kb, runs, spider_vars>>

\* process_file up to the candidate loop: the document is annotated and its
\* candidates are extracted (lines 112-144)
ProcessFile ==
    /\ pc = "scan"
    /\ corpus_size < MaxSpans
    /\ \E ss \in SeqsUpTo(SpanPool, MaxSpans - corpus_size) :
          /\ spans' = ss
          /\ span_out' = [k \in 1..Len(ss) |-> span_candidate(ss[k])]
          /\ personalities' = extract_candidates(ss)
          /\ todo' = extract_candidates(ss)
          /\ corpus_size' = corpus_size + (IF ss = <<>> THEN 1 ELSE Len(ss))
    /\ actual_personalities' = {}
    /\ trace' = {}
    /\ last' = NoLast
    /\ pc' = "resolve"
    /\ UNCHANGED <<personality, wiki_personalities, wiki_personality,
                   collected, collected_sets, counter, counter_sets, returned,
                   top, kb, runs>>
    /\ UNCHANGED spider_vars

\* the loop body ends for candidate c, having added `emitted` to the output
Handled(c, kind, page, emitted, fetches) ==
    /\ actual_personalities' = set_add(actual_personalities, emitted)
    /\ trace' = trace \cup {[cand |-> c, emitted |-> emitted, vetoed |-> kind = "vetoed"]}
    /\ last' = [kind |-> kind, cand |-> c, page |-> page, emitted |-> emitted,
                before |-> actual_personalities, searches |-> 1,
                fetches |-> fetches]
    /\ personality' = <<>>
    /\ wiki_personalities' = <<>>
    /\ wiki_personality' = <<>>
    /\ spans' = <<>>
    /\ span_out' = <<>>
    /\ pc' = "next"
    /\ UNCHANGED personalities
    /\ UNCHANGED dir_vars

\* wikipedia.search raises WikipediaException (lines 149, 208-211)
SearchRaises ==
    /\ pc = "resolve"
    /\ \E c \in todo :
          /\ todo' = after_exception(todo \ {c}, c)
          /\ Handled(c, "search_error", NoPage, {}, 0)

\* wikipedia.search returns no title (lines 149-154)
SearchEmpty ==
    /\ pc = "resolve"
    /\ \E c \in todo :
          /\ todo' = todo \ {c}
          /\ Handled(c, "no_results", NoPage, no_results_outcome(c), 0)

\* wikipedia.search returns titles and one is chosen (lines 149-175)
SearchFound ==
    /\ pc = "resolve"
    /\ \E c \in todo, found \in SeqsUpTo(TitlePool, MaxResults) \ {<<>>} :
          /\ personality' = c
          /\ wiki_personalities' = found
          /\ wiki_personality' = choose_title(c, found)
          /\ todo' = todo \ {c}
    /\ spans' = <<>>
    /\ span_out' = <<>>
    /\ pc' = "page"
    /\ UNCHANGED <<personalities, actual_personalities, trace, last>>
    /\ UNCHANGED dir_vars

\* wikipedia.page(wiki_personality) is called (line 177); the result list is
\* not used again
PageCall ==
    /\ pc = "page"
    /\ wiki_personalities' = <<>>
    /\ pc' = "fetch"
    /\ UNCHANGED <<spans, span_out, personalities, todo, personality,
                   wiki_personality, actual_personalities, trace, last>>
    /\ UNCHANGED dir_vars

\* wikipedia.page raises WikipediaException (lines 177, 208-211)
FetchRaises ==
    /\ pc = "fetch"
    /\ Handled(personality, "fetch_error", NoPage, {}, 1)
    /\ todo' = after_exception(todo, personality)

\* wikipedia.page returns; the page is classified (lines 177-207)
FetchPage ==
    /\ pc = "fetch"
    /\ \E page \in PagePool :
          Handled(personality, page_kind(page), page,
                  page_outcome(personality, page), 1)
    /\ UNCHANGED todo

\* the for loop goes on to its next candidate
NextCandidate ==
    /\ pc = "next"
    /\ last' = NoLast
    /\ pc' = "resolve"
    /\ UNCHANGED <<spans, span_out, personalities, todo, personality,
                   wiki_personalities, wiki_personality, actual_personalities, trace>>
    /\ UNCHANGED dir_vars

\* extract_personalities_from_document returns (line 215); process_file hands
\* the set to process_dir, which extends / appends its list
ReturnDocument ==
    /\ pc = "resolve"
    /\ todo = {}
    /\ \E o \in Orders(actual_personalities) : collected' = list_extend(collected, o)
    /\ collected_sets' = Append(collected_sets, SetItem(actual_personalities))
    /\ returned' = Append(returned, actual_personalities)
    /\ spans' = <<>>
    /\ span_out' = <<>>
    /\ personalities' = {}
    /\ actual_personalities' = {}
    /\ trace' = {}
    /\ pc' = "scan"
    /\ UNCHANGED <<todo, personality, wiki_personalities, wiki_personality, last,
                   corpus_size, counter, counter_sets, top, kb, runs>>
    /\ UNCHANGED spider_vars

\* the directory is exhausted: Counter(personalities) in both mains, and
\* counter.most_common(10)
BuildCounter ==
    /\ pc = "scan"
    /\ counter' = Counter(collected)
    /\ counter_sets' = Counter(collected_sets)
    /\ top' = [n |-> TopK, entries |-> most_common(Counter_items(collected), TopK)]
    /\ pc' = "done"
    /\ UNCHANGED <<corpus_size, spans, span_out, personalities, todo,
                   personality, wiki_personalities, wiki_personality,
                   actual_personalities, trace, last, collected, collected_sets,
                   returned, kb, runs>>
    /\ UNCHANGED spider_vars

\* an exception has left process_dir: the frames of process_file and of
\* extract_personalities_from_document are gone, the lists of process_dir are
\* what they were
Propagates(where) ==
    /\ pc' = "aborted"
    /\ last' = [NoLast EXCEPT !.kind = where]
    /\ spans' = <<>>
    /\ span_out' = <<>>
    /\ personalities' = {}
    /\ todo' = {}
    /\ personality' = <<>>
    /\ wiki_personalities' = <<>>
    /\ wiki_personality' = <<>>
    /\ actual_personalities' = {}
    /\ trace' = {}
    /\ UNCHANGED dir_vars

\* process_file: open or readlines raises (OSError, UnicodeDecodeError);
\* process_dir has no handler (main.py lines 14-15, 27)
ReadRaises ==
    /\ pc = "scan"
    /\ corpus_size < MaxSpans
    /\ Propagates("read")

\* wikipedia.search raises an exception that is not a WikipediaException:
\* the handler of line 208 does not catch it
SearchRaisesOther ==
    /\ pc = "resolve"
    /\ todo # {}
    /\ Propagates("search")

\* wikipedia.page raises an exception that is not a WikipediaException
FetchRaisesOther ==
    /\ pc = "fetch"
    /\ Propagates("fetch")

Next ==
    \/ ProcessFile
    \/ SearchRaises
    \/ SearchEmpty
    \/ SearchFound
    \/ PageCall
    \/ FetchRaises
    \/ FetchPage
    \/ NextCandidate
    \/ ReturnDocument
    \/ BuildCounter
    \/ ReadRaises
    \/ SearchRaisesOther
    \/ FetchRaisesOther

Spec == Init /\ [][Next]_vars

(***************************************************************************)
(* The pipeline when every call returns or raises WikipediaException and   *)
(* every file can be read.  The interpreter goes on executing the          *)
(* statements of the document it is in: weak fairness of the steps of a    *)
(* document.                                                               *)
(***************************************************************************)
DocumentStep ==
    \/ SearchRaises
    \/ SearchEmpty
    \/ SearchFound
    \/ PageCall
    \/ FetchRaises
    \/ FetchPage
    \/ NextCandidate
    \/ ReturnDocument

NextReturning ==
    \/ ProcessFile
    \/ DocumentStep
    \/ BuildCounter

SpecReturning == Init /\ [][NextReturning]_vars /\ WF_vars(DocumentStep)

(***************************************************************************)
(* The candidate loop (lines 145-211) as a function of the order in which  *)
(* `for personality in personalities` iterates the set and of the          *)
(* responses of the knowledge base, and a specification that runs it in    *)
(* several orders against the same responses.                              *)
(***************************************************************************)
Raised == [raises |-> "WikipediaException", value |-> <<>>]

Returned(v) == [raises |-> None, value |-> v]

SearchResponses ==
    { Raised,
      Returned(<<>>),
      Returned(<< <<"A">> >>),
      Returned(<< <<"A">>, <<"a", " ", "(kompaniya)">> >>) }

KbTitles == { <<"A">>, <<"a", " ", "(kompaniya)">> }

PageResponses ==
    { Raised } \cup
    { Returned([title |-> id.title, url |-> id.url, categories |-> cs]) :
        id \in PageIdPool,
        cs \in { <<"Kategoriya:Kompanii po alfavitu">>,
                 <<"Kategoriya:Rodivshiesya v Moskve", "Kategoriya:Blokchein">> } }

\* faulty variant: a vetoed page ends the loop (break for continue, line 193)
RECURSIVE resolve_in_order_veto_breaks(_, _, _)
resolve_in_order_veto_breaks(order, kb_, actual) ==
    IF order = <<>> THEN actual
    ELSE LET c == Head(order)
             found == kb_.search[c]
             fetched == kb_.page[choose_title(c, found.value)]
         IN  IF found.raises # None
             THEN resolve_in_order_veto_breaks(Tail(order), kb_, actual)
             ELSE IF Len(found.value) = 0
             THEN resolve_in_order_veto_breaks(Tail(order), kb_,
                                               set_add(actual, no_results_outcome(c)))
             ELSE IF fetched.raises # None
             THEN resolve_in_order_veto_breaks(Tail(order), kb_, actual)
             ELSE IF page_kind(fetched.value) = "vetoed" THEN actual
             ELSE resolve_in_order_veto_breaks(
                      Tail(order), kb_, set_add(actual, page_outcome(c, fetched.value)))

\* faulty variant: a failed call ends the loop (the handler outside the loop)
RECURSIVE resolve_in_order_failure_breaks(_, _, _)
resolve_in_order_failure_breaks(order, kb_, actual) ==
    IF order = <<>> THEN actual
    ELSE LET c == Head(order)
             found == kb_.search[c]
             fetched == kb_.page[choose_title(c, found.value)]
         IN  IF found.raises # None THEN actual
             ELSE IF Len(found.value) = 0
             THEN resolve_in_order_failure_breaks(
                      Tail(order), kb_, set_add(actual, no_results_outcome(c)))
             ELSE IF fetched.raises # None THEN actual
             ELSE resolve_in_order_failure_breaks(
                      Tail(order), kb_, set_add(actual, page_outcome(c, fetched.value)))

RECURSIVE resolve_in_order(_, _, _)
resolve_in_order(order, kb_, actual) ==
    IF order = <<>> THEN actual
    ELSE LET c == Head(order)
             found == kb_.search[c]
             fetched == kb_.page[choose_title(c, found.value)]
             after == IF found.raises # None THEN actual
                      ELSE IF Len(found.value) = 0
                      THEN set_add(actual, no_results_outcome(c))
                      ELSE IF fetched.raises # None THEN actual
                      ELSE set_add(actual, page_outcome(c, fetched.value))
         IN  resolve_in_order(Tail(order), kb_, after)

\* a document has been annotated and the knowledge base answers each query
\* in one way
InitOrders ==
    /\ pc = "resolve"
    /\ corpus_size = 0
    /\ spans = <<>>
    /\ span_out = <<>>
    /\ \E ss \in SeqsUpTo(SpanPool, MaxSpans) :
          /\ personalities = extract_candidates(ss)
          /\ todo = extract_candidates(ss)
    /\ personality = <<>>
    /\ wiki_personalities = <<>>
    /\ wiki_personality = <<>>
    /\ actual_personalities = {}
    /\ trace = {}
    /\ last = NoLast
    /\ collected = <<>>
    /\ collected_sets = <<>>
    /\ counter = NoCounter
    /\ counter_sets = NoCounter
    /\ returned = <<>>
    /\ top = NoTop
    /\ \E search \in [personalities -> SearchResponses],
          page \in [KbTitles -> PageResponses] :
          kb = [search |-> search, page |-> page]
    /\ runs = {}
    /\ SpiderIdle

\* one run of the loop, the set iterated in some order
RunLoop ==
    /\ Cardinality(runs) < 2
    /\ \E order \in Orders(personalities) :
          runs' = runs \cup {[order |-> order,
                              result |-> resolve_in_order(order, kb, {})]}
    /\ UNCHANGED <<pc, corpus_size, spans, span_out, personalities, todo,
                   personality, wiki_personalities, wiki_personality,
                   actual_personalities, trace, last, collected, collected_sets,
                   counter, counter_sets, returned, top, kb>>
    /\ UNCHANGED spider_vars

SpecOrders == InitOrders /\ [][RunLoop]_vars

(***************************************************************************)
(* Counter.most_common on its own: any list of entities folded so far, any *)
(* K up to MaxK.                                                           *)
(***************************************************************************)
KeyPool ==
    { UnverifiedPersonality(<<"a">>),
      UnverifiedPersonality(<<"A">>),
      WikiPersonality(<<"A", " ", "(kompaniya)">>,
                      "https://ru.wikipedia.org/wiki/A_(kompaniya)", "COMPANY") }

InitTopK ==
    /\ pc = "scan"
    /\ corpus_size = 0
    /\ spans = <<>>
    /\ span_out = <<>>
    /\ personalities = {}
    /\ todo = {}
    /\ personality = <<>>
    /\ wiki_personalities = <<>>
    /\ wiki_personality = <<>>
    /\ actual_personalities = {}
    /\ trace = {}
    /\ last = NoLast
    /\ collected \in SeqsUpTo(KeyPool, MaxFolded)
    /\ collected_sets = <<>>
    /\ counter = NoCounter
    /\ counter_sets = NoCounter
    /\ returned = <<>>
    /\ top = NoTop
    /\ kb = NoKb
    /\ runs = {}
    /\ SpiderIdle

MostCommonCall ==
    /\ pc = "scan"
    /\ counter' = Counter(collected)
    /\ \E n \in 0..MaxK :
          top' = [n |-> n, entries |-> most_common(Counter_items(collected), n)]
    /\ pc' = "done"
    /\ UNCHANGED <<corpus_size, spans, span_out, personalities, todo,
                   personality, wiki_personalities, wiki_personality,
                   actual_personalities, trace, last, collected, collected_sets,
                   counter_sets, returned, kb, runs>>
    /\ UNCHANGED spider_vars

SpecTopK == InitTopK /\ [][MostCommonCall]_vars

(***************************************************************************)
(* The directory loop of process_dir (context_analyser, lines 23-39) as a  *)
(* function of the order in which os.scandir lists the files, run in       *)
(* several orders on the same per-document sets.                           *)
(***************************************************************************)
DocumentPool ==
    { {},
      {UnverifiedPersonality(<<"a">>)},
      {UnverifiedPersonality(<<"A">>)},
      {UnverifiedPersonality(<<"a">>),
       WikiPersonality(<<"A", " ", "(kompaniya)">>,
                       "https://ru.wikipedia.org/wiki/A_(kompaniya)", "COMPANY")} }

\* the lists personalities can be after the sets `documents` were folded in
\* this order, each set iterated in any order
RECURSIVE folded_lists(_)
folded_lists(documents) ==
    IF documents = <<>> THEN {<<>>}
    ELSE {list_extend(list, o) :
            list \in folded_lists(SubSeq(documents, 1, Len(documents) - 1)),
            o \in Orders(documents[Len(documents)])}

InitFolds ==
    /\ pc = "scan"
    /\ corpus_size = 0
    /\ spans = <<>>
    /\ span_out = <<>>
    /\ personalities = {}
    /\ todo = {}
    /\ personality = <<>>
    /\ wiki_personalities = <<>>
    /\ wiki_personality = <<>>
    /\ actual_personalities = {}
    /\ trace = {}
    /\ last = NoLast
    /\ collected = <<>>
    /\ collected_sets = <<>>
    /\ counter = NoCounter
    /\ counter_sets = NoCounter
    /\ returned \in SeqsUpTo(DocumentPool, MaxDocs)
    /\ top = NoTop
    /\ kb = NoKb
    /\ runs = {}
    /\ SpiderIdle

\* one run of process_dir, the files listed in some order
FoldRun ==
    /\ Cardinality(runs) < 2
    /\ \E order \in Orders(1..Len(returned)) :
          \E list \in folded_lists([i \in 1..Len(order) |-> returned[order[i]]]) :
             /\ collected' = list
             /\ counter' = Counter(list)
             /\ runs' = runs \cup {[order |-> order, result |-> Counter(list)]}
    /\ UNCHANGED <<pc, corpus_size, spans, span_out, personalities, todo,
                   personality, wiki_personalities, wiki_personality,
                   actual_personalities, trace, last, collected_sets,
                   counter_sets, returned, top, kb>>
    /\ UNCHANGED spider_vars

SpecFolds == InitFolds /\ [][FoldRun]_vars

(***************************************************************************)
(* The spiders.  The pipeline is idle while a spider runs.                 *)
(***************************************************************************)
pipeline_vars ==
    <<pc, corpus_size, spans, span_out, personalities, todo, personality,
      wiki_personalities, wiki_personality, actual_personalities, trace, last,
      collected, collected_sets, counter, counter_sets, returned, top, kb, runs>>

PipelineIdle ==
    /\ pc = "scan"
    /\ corpus_size = 0
    /\ spans = <<>>
    /\ span_out = <<>>
    /\ personalities = {}
    /\ todo = {}
    /\ personality = <<>>
    /\ wiki_personalities = <<>>
    /\ wiki_personality = <<>>
    /\ actual_personalities = {}
    /\ trace = {}
    /\ last = NoLast
    /\ collected = <<>>
    /\ collected_sets = <<>>
    /\ counter = NoCounter
    /\ counter_sets = NoCounter
    /\ returned = <<>>
    /\ top = NoTop
    /\ kb = NoKb
    /\ runs = {}

(***************************************************************************)
(* HabrahabrKotlinSpider: __init__ with __parse_total_pages_num (the same  *)
(* code in HabrahabrSpider and HabrahabrArticlesSpider), and               *)
(* start_requests.  `site` is the page numbers of the links of class       *)
(* tm-pagination__page.                                                    *)
(***************************************************************************)
\* lines 172-176: the loop over the links, from index k on
RECURSIVE scan_pages(_, _, _)
scan_pages(divs, k, max_page) ==
    IF k > Len(divs) THEN max_page
    ELSE scan_pages(divs, k + 1, IF divs[k] > max_page THEN divs[k] ELSE max_page)

parse_total_pages_num(divs) ==
    LET max_page == scan_pages(divs, 1, -1)
    IN  IF max_page # 1
        THEN [raises |-> None, value |-> max_page]
        ELSE [raises |-> "ValueError", value |-> 0]

\* range(a, b) as a list
range(a, b) == [i \in 1..(b - a) |-> a + i - 1]

\* the page numbers start_requests yields a Request for, in order
start_requests(total) == range(1, total)

InitKotlin ==
    /\ PipelineIdle
    /\ sp_pc = "new"
    /\ site \in SeqsUpTo(1..MaxPage, MaxLinks)
    /\ path_to_failed_dir = None
    /\ total_pages_to_parse = NoTotal
    /\ requests = <<>>
    /\ opened = NoOpened
    /\ articles_data = <<>>

\* __init__ (lines 46-51)
KotlinInit ==
    /\ sp_pc = "new"
    /\ total_pages_to_parse' = parse_total_pages_num(site)
    /\ sp_pc' = IF parse_total_pages_num(site).raises # None THEN "failed" ELSE "built"
    /\ UNCHANGED <<site, path_to_failed_dir, requests, opened, articles_data>>
    /\ UNCHANGED pipeline_vars

\* start_requests yields its next Request (lines 59-61)
KotlinYieldRequest ==
    /\ sp_pc = "built"
    /\ Len(requests) < Len(start_requests(total_pages_to_parse.value))
    /\ requests' = Append(requests,
                          start_requests(total_pages_to_parse.value)[Len(requests) + 1])
    /\ UNCHANGED <<sp_pc, site, path_to_failed_dir, total_pages_to_parse, opened,
                   articles_data>>
    /\ UNCHANGED pipeline_vars

\* the generator of start_requests is exhausted
KotlinRequestsDone ==
    /\ sp_pc = "built"
    /\ Len(requests) = Len(start_requests(total_pages_to_parse.value))
    /\ sp_pc' = "started"
    /\ UNCHANGED <<site, path_to_failed_dir, total_pages_to_parse, requests,
                   opened, articles_data>>
    /\ UNCHANGED pipeline_vars

NextKotlin ==
    \/ KotlinInit
    \/ KotlinYieldRequest
    \/ KotlinRequestsDone

SpecKotlin == InitKotlin /\ [][NextKotlin]_vars

(***************************************************************************)
(* GitHubTopicsSpider.__open_page, one step per call of urlopen.  `site`   *)
(* is the answers urlopen gives to the successive requests for the url;    *)
(* `opened` holds the frame of the call: the requests made, the sleeps     *)
(* taken, the previously_failed argument of the running invocation and the *)
(* exception raised to the caller.                                         *)
(***************************************************************************)
UrlopenOutcomes ==
    { [kind |-> "page", code |-> 200],
      [kind |-> "HTTPError", code |-> 429],
      [kind |-> "HTTPError", code |-> 404],
      [kind |-> "URLError", code |-> 0] }

\* faulty variant: a 429 is retried whatever previously_failed is
open_page_retry_every_429(e, previously_failed) ==
    IF e.kind = "page" THEN "return"
    ELSE IF e.kind = "HTTPError" /\ e.code = 429 THEN "retry"
    ELSE "raise"

\* lines 170-183: what one invocation does with the answer of its urlopen
open_page(e, previously_failed) ==
    IF e.kind = "page" THEN "return"
    ELSE IF e.kind = "HTTPError" /\ e.code = 429 /\ ~previously_failed
    THEN "retry"
    ELSE "raise"

InitGitHub ==
    /\ PipelineIdle
    /\ sp_pc = "new"
    /\ site \in [1..MaxOutcomes -> UrlopenOutcomes]
    /\ path_to_failed_dir = None
    /\ total_pages_to_parse = NoTotal
    /\ requests = <<>>
    /\ opened = NoOpened
    /\ articles_data = <<>>

\* a caller invokes __open_page(url): previously_failed defaults to False
GitHubOpenPage ==
    /\ sp_pc = "new"
    /\ sp_pc' = "urlopen"
    /\ opened' = NoOpened
    /\ UNCHANGED <<site, path_to_failed_dir, total_pages_to_parse, requests,
                   articles_data>>
    /\ UNCHANGED pipeline_vars

\* the running invocation calls urlopen and handles its answer; on "retry"
\* it sleeps and invokes __open_page(url, True), whose result it returns
GitHubUrlopen ==
    /\ sp_pc = "urlopen"
    /\ opened.requests < MaxOutcomes
    /\ LET e == site[opened.requests + 1]
           does == open_page(e, opened.previously_failed)
           made == [opened EXCEPT !.requests = @ + 1]
       IN  \/ /\ does = "return"
              /\ opened' = made
              /\ sp_pc' = "returned"
           \/ /\ does = "retry"
              /\ opened' = [made EXCEPT !.sleeps = @ + 1,
                                        !.previously_failed = TRUE]
              /\ sp_pc' = "urlopen"
           \/ /\ does = "raise"
              /\ opened' = [made EXCEPT !.raises = e.kind, !.code = e.code]
              /\ sp_pc' = "raised"
    /\ UNCHANGED <<site, path_to_failed_dir, total_pages_to_parse, requests,
                   articles_data>>
    /\ UNCHANGED pipeline_vars

NextGitHub == GitHubOpenPage \/ GitHubUrlopen

\* a call that has been made runs: the code is sequential
SpecGitHub == InitGitHub /\ [][NextGitHub]_vars /\ WF_vars(NextGitHub)

(***************************************************************************)
(* parse() of a listing page, in the spiders that crawl listings:          *)
(* HabrahabrArticlesSpider (market_demand), GitHubTopicsSpider and         *)
(* HabrahabrSpider.  A link of the listing is its href with what the page  *)
(* behind it is: one the try block parses, one on which the try block      *)
(* raises, or one urlopen answers with an HTTP error.  Writing the failed  *)
(* page to an existing directory is taken to succeed.                      *)
(***************************************************************************)
Spiders == {"market_demand", "github", "habrahabr"}

DirArgs == {None, "out"}

Unset == "unset"

\* __init__: what self.__path_to_failed_dir is after construction.
\* market_demand lines 64-67 assign it under `if self.__path_to_dir is not
\* None` only, github lines 56-61 assign None otherwise, habrahabr has no
\* such attribute and its handler writes into the working directory.
failed_dir_of(spider, dir) ==
    IF spider = "habrahabr" THEN "."
    ELSE IF dir # None THEN "out/failed"
    ELSE IF spider = "github" THEN None
    ELSE Unset

LinkPool ==
    { [href |-> "a", page |-> "parsable"],
      [href |-> "b", page |-> "parsable"],
      [href |-> "c", page |-> "unparsable"],
      [href |-> "d", page |-> "HTTPError"] }

\* the record built from a page, identified by its link
ArticleData(link) == [link |-> link.href]

NoArticle == [link |-> None]

\* the except handler of __parse_article: reading an attribute that was
\* never assigned raises AttributeError out of the handler
except_handler(failed_dir) ==
    IF failed_dir = Unset
    THEN [raises |-> "AttributeError", value |-> NoArticle]
    ELSE [raises |-> None, value |-> NoArticle]

\* __parse_article / __parse_technology: __open_page is called before the try
parse_article(link, failed_dir) ==
    IF link.page = "HTTPError"
    THEN [raises |-> "HTTPError", value |-> NoArticle]
    ELSE IF link.page = "parsable"
    THEN [raises |-> None, value |-> ArticleData(link)]
    ELSE except_handler(failed_dir)

\* __parse_articles: the comprehension over the links, left to right, then
\* the filter of the None entries; an exception leaves the comprehension
RECURSIVE parse_articles(_, _)
parse_articles(links, failed_dir) ==
    IF links = <<>> THEN [raises |-> None, value |-> <<>>]
    ELSE LET el == parse_article(Head(links), failed_dir)
         IN  IF el.raises # None THEN [raises |-> el.raises, value |-> <<>>]
             ELSE LET rest == parse_articles(Tail(links), failed_dir)
                  IN  IF rest.raises # None THEN rest
                      ELSE [raises |-> None,
                            value |-> IF el.value # NoArticle
                                      THEN <<el.value>> \o rest.value
                                      ELSE rest.value]

InitListing ==
    /\ PipelineIdle
    /\ sp_pc = "crawling"
    /\ site = <<>>
    /\ \E spider \in Spiders, dir \in DirArgs :
           path_to_failed_dir = failed_dir_of(spider, dir)
    /\ total_pages_to_parse = NoTotal
    /\ requests = <<>>
    /\ opened = NoOpened
    /\ articles_data = <<>>

\* parse(response): `site` becomes the links of the listing in the response,
\* `opened.raises` the exception parse() ended with, which scrapy logs before
\* it goes on with the next response
ListingParse ==
    /\ sp_pc = "crawling"
    /\ Len(requests) < MaxListings
    /\ \E links \in SeqsUpTo(LinkPool, MaxListingLinks) :
           LET articles == parse_articles(links, path_to_failed_dir)
           IN  /\ site' = links
               /\ opened' = [NoOpened EXCEPT !.raises = articles.raises]
               /\ articles_data' = IF articles.raises = None
                                   THEN list_extend(articles_data, articles.value)
                                   ELSE articles_data
    /\ requests' = Append(requests, Len(requests) + 1)
    /\ UNCHANGED <<sp_pc, path_to_failed_dir, total_pages_to_parse>>
    /\ UNCHANGED pipeline_vars

SpecListing == InitListing /\ [][ListingParse]_vars

(***************************************************************************)
(* The vocabulary of the claims: what the design says of a page.           *)
(***************************************************************************)
VerifiedTypes == {"INDIVIDUAL", "COMPANY", "MEDIA_GROUP"}

\* the page has a category among the stop categories
Vetoed(page) == Range(page.categories) \cap STOP_WIKI_CATEGORIES # {}

\* the page has a category among the labels of type t
Recognised(t, page) == Range(page.categories) \cap Range(TypeCategories(t)) # {}

\* the first type, in declared order, one of whose labels the page has
PriorityType(page) ==
    IF Recognised("INDIVIDUAL", page) THEN "INDIVIDUAL"
    ELSE IF Recognised("COMPANY", page) THEN "COMPANY"
    ELSE "MEDIA_GROUP"

\* the loop body has just ended for a candidate whose page was fetched
LastFetched == pc = "next" /\ last.fetches = 1 /\ last.kind # "fetch_error"

(***************************************************************************)
(* C1.  Classification priority: a fetched, non-vetoed page that has a     *)
(* label of INDIVIDUAL and a label of COMPANY or MEDIA_GROUP is emitted as *)
(* the Verified entity of the first matching type in declared order.       *)
(* Violated: the type of the last recognised category is emitted.          *)
(***************************************************************************)
C1_ClassificationPriority ==
    ( /\ LastFetched
      /\ ~Vetoed(last.page)
      /\ Recognised("INDIVIDUAL", last.page)
      /\ Recognised("COMPANY", last.page) \/ Recognised("MEDIA_GROUP", last.page) )
    => last.emitted =
         {WikiPersonality(last.page.title, last.page.url, PriorityType(last.page))}

(***************************************************************************)
(* C2.  Veto exclusion: a candidate whose fetched page has a stop category *)
(* at any position adds nothing to the output set, and the output set of   *)
(* the document never holds Unverified(candidate).                         *)
(***************************************************************************)
C2_VetoExclusion ==
    /\ (LastFetched /\ Vetoed(last.page))
         => /\ last.kind = "vetoed"
            /\ last.emitted = {}
            /\ actual_personalities = last.before
    /\ \A t \in trace :
         t.vetoed
           => /\ t.emitted = {}
              /\ UnverifiedPersonality(t.cand) \notin actual_personalities

\* a vetoed page whose first category a personality type recognises
C2_Witness ==
    /\ LastFetched
    /\ Len(last.page.categories) = 2
    /\ first_accepting(last.page.categories[1]) # None
    /\ last.page.categories[2] \in STOP_WIKI_CATEGORIES
    /\ last.emitted = {}

(***************************************************************************)
(* C3.  A candidate whose search returns no title emits exactly            *)
(* Unverified(candidate): fullname the candidate, type UNVERIFIED, source  *)
(* null; no page is fetched for it.                                        *)
(***************************************************************************)
C3_NoResults ==
    /\ (pc = "next" /\ last.kind = "no_results")
         => /\ last.fetches = 0
            /\ Cardinality(last.emitted) = 1
            /\ \A p \in last.emitted :
                 /\ p.cls = "UnverifiedPersonality"
                 /\ fullname(p) = last.cand
                 /\ type(p) = "UNVERIFIED"
                 /\ source(p) = None
            /\ actual_personalities = last.before \cup last.emitted

\* an empty search for the second candidate of a document
C3_Witness ==
    /\ pc = "next"
    /\ last.kind = "no_results"
    /\ last.before # {}
    /\ UnverifiedPersonality(last.cand) \in actual_personalities

(***************************************************************************)
(* C4.  Tie-break: the title fetched is the first result equal, ignoring   *)
(* case, to "<candidate> (kompaniya)"; failing that the first result equal,*)
(* ignoring case, to "<candidate> (sotsialnaya set)"; failing that the     *)
(* first result.                                                           *)
(***************************************************************************)
EqualIgnoringCase(a, b) == lower(a) = lower(b)

Qualified(c, qualifier) == c \o <<" ", qualifier>>

MatchesAt(c, qualifier) ==
    {k \in 1..Len(wiki_personalities) :
        EqualIgnoringCase(wiki_personalities[k], Qualified(c, qualifier))}

C4_TieBreak ==
    pc = "page"
    => LET company == MatchesAt(personality, "(kompaniya)")
           social == MatchesAt(personality, "(sotsialnaya set)")
       IN  /\ company # {}
                => wiki_personality = wiki_personalities[Min(company)]
           /\ (company = {} /\ social # {})
                => wiki_personality = wiki_personalities[Min(social)]
           /\ (company = {} /\ social = {})
                => wiki_personality = wiki_personalities[1]

\* the company title comes second, after a social-network title
C4_Witness ==
    /\ pc = "page"
    /\ Len(wiki_personalities) = 2
    /\ MatchesAt(personality, "(sotsialnaya set)") = {1}
    /\ MatchesAt(personality, "(kompaniya)") = {2}
    /\ wiki_personality = wiki_personalities[2]
    /\ wiki_personalities[2] # Qualified(personality, "(kompaniya)")

(***************************************************************************)
(* C5.  A fetched page that is not vetoed: with a recognised category the  *)
(* candidate emits Verified(page.title, page.url, type), the type one that *)
(* recognises a category of the page; with none it emits                   *)
(* Unverified(candidate).                                                  *)
(***************************************************************************)
C5_PageOutcome ==
    (LastFetched /\ ~Vetoed(last.page))
    => /\ actual_personalities = last.before \cup last.emitted
       /\ IF \E t \in VerifiedTypes : Recognised(t, last.page)
          THEN \E t \in VerifiedTypes :
                  /\ Recognised(t, last.page)
                  /\ last.emitted =
                       {WikiPersonality(last.page.title, last.page.url, t)}
          ELSE last.emitted = {UnverifiedPersonality(last.cand)}

\* a Verified entity whose fullname is the page title, not the candidate
C5_Witness ==
    /\ LastFetched
    /\ last.kind = "verified"
    /\ last.page.title # last.cand
    /\ \E p \in actual_personalities :
          fullname(p) = last.page.title /\ source(p) = last.page.url

(***************************************************************************)
(* C6.  End-to-end exactness: when the candidate loop of a document is     *)
(* over, every candidate was handled once and the output set is exactly    *)
(* the union of what the candidates emitted, each of them nothing,         *)
(* Unverified(candidate) or one Verified entity of a page.                 *)
(***************************************************************************)
Outcomes(c) ==
    {{}, {UnverifiedPersonality(c)}}
    \cup {{WikiPersonality(id.title, id.url, t)} : id \in PageIdPool, t \in VerifiedTypes}

C6_Exactness ==
    (pc = "resolve" /\ todo = {})
    => /\ {t.cand : t \in trace} = personalities
       /\ Cardinality(trace) = Cardinality(personalities)
       /\ \A t \in trace : t.emitted \in Outcomes(t.cand)
       /\ actual_personalities = UNION {t.emitted : t \in trace}

\* two candidates: one resolves to a COMPANY page, the other finds nothing
C6_Witness ==
    /\ pc = "resolve"
    /\ todo = {}
    /\ \E t1, t2 \in trace :
          /\ t1.cand # t2.cand
          /\ \E p \in t1.emitted : type(p) = "COMPANY"
          /\ t2.emitted = {UnverifiedPersonality(t2.cand)}
          /\ actual_personalities = t1.emitted \cup t2.emitted
          /\ Cardinality(actual_personalities) = 2

(***************************************************************************)
(* C7.  Equality invariant: two Personality values the pipeline produced   *)
(* are equal, and have equal hashes, exactly when their                    *)
(* (fullname, type, source) triples are equal.                             *)
(***************************************************************************)
Triple(p) == <<fullname(p), type(p), source(p)>>

Produced == actual_personalities \cup Range(collected)

C7_Equality ==
    \A a, b \in Produced :
       /\ (a = b) <=> (Triple(a) = Triple(b))
       /\ (HashKey(a) = HashKey(b)) <=> (Triple(a) = Triple(b))

\* two Unverified entities whose fullnames differ in case only
C7_Witness ==
    \E a, b \in Produced :
       /\ a.cls = "UnverifiedPersonality" /\ b.cls = "UnverifiedPersonality"
       /\ a # b /\ lower(fullname(a)) = lower(fullname(b))

(***************************************************************************)
(* C8.  Aggregation (context_analyser): once the directory is folded, the  *)
(* count of a Personality is the number of documents whose output set      *)
(* holds it, and the keys are the Personalities of the output sets.        *)
(***************************************************************************)
DocumentsWith(p) == {d \in 1..Len(returned) : p \in returned[d]}

C8_Aggregation ==
    pc = "done"
    => /\ counter.error = None
       /\ DOMAIN counter.counts = UNION {returned[d] : d \in 1..Len(returned)}
       /\ \A p \in DOMAIN counter.counts :
             counter.counts[p] = Cardinality(DocumentsWith(p))

\* a Verified entity that two documents produced
C8_Witness ==
    /\ pc = "done"
    /\ \E p \in DOMAIN counter.counts :
          /\ p.cls = "WikiPersonality"
          /\ type(p) = "COMPANY"
          /\ Cardinality(DocumentsWith(p)) = 2
          /\ counter.counts[p] = 2

(***************************************************************************)
(* C9.  analyser/main.py: the count map is built, and its keys are         *)
(* Personality values with their numbers of occurrences, never a whole     *)
(* per-document set.  Violated: the list holds the sets themselves, which  *)
(* Counter cannot hash.                                                    *)
(***************************************************************************)
C9_FoldsPersonalities ==
    pc = "done"
    => /\ counter_sets.error = None
       /\ \A key \in DOMAIN counter_sets.counts : key.cls # "set"
       /\ DOMAIN counter_sets.counts = UNION {returned[d] : d \in 1..Len(returned)}

(***************************************************************************)
(* C10.  Stop-word exclusion: a span whose case-folded normalized form is  *)
(* a stop word produces no candidate.  Violated: the normalized form is    *)
(* looked up as it is, and the stop words are kept in lower case.          *)
(***************************************************************************)
C10_StopWordExclusion ==
    \A k \in 1..Len(spans) :
       lower(spans[k].normal) \in STOP_WORDS => span_out[k] = <<>>

(***************************************************************************)
(* C11.  Candidate derivation: a span that is not discarded yields         *)
(* trim(first + " " + last) of its fact (a missing part is empty) when it  *)
(* has a fact, and its normalized form otherwise; the candidates of the    *)
(* document are the set of these strings under exact equality.             *)
(***************************************************************************)
Trim(s) ==
    LET inked == {k \in 1..Len(s) : s[k] # " "}
    IN  IF inked = {} THEN <<>> ELSE SubSeq(s, Min(inked), Max(inked))

Part(fact, key) == IF key \in DOMAIN fact.dict THEN fact.dict[key] ELSE <<>>

Derived(span) ==
    IF span.fact.has
    THEN Trim(Part(span.fact, "first") \o <<" ">> \o Part(span.fact, "last"))
    ELSE span.normal

\* the candidate loop is about to start: spans still holds the document
JustExtracted == pc = "resolve" /\ trace = {}

C11_CandidateDerivation ==
    /\ \A k \in 1..Len(spans) :
          span_out[k] # <<>> => span_out[k] = << Derived(spans[k]) >>
    /\ JustExtracted
         => personalities =
              {Derived(spans[k]) : k \in {j \in 1..Len(spans) : span_out[j] # <<>>}}

\* two spans whose candidates differ in case only, one of them from a fact
\* with a first name and no last name
C11_Witness ==
    /\ JustExtracted
    /\ Len(spans) = 2
    /\ spans[1].fact.has /\ "last" \notin DOMAIN spans[1].fact.dict
    /\ ~spans[2].fact.has
    /\ span_out[1] # <<>> /\ span_out[2] # <<>>
    /\ span_out[1] # span_out[2]
    /\ lower(span_out[1][1]) = lower(span_out[2][1])
    /\ Cardinality(personalities) = 2

(***************************************************************************)
(* C12.  Failure isolation: a candidate whose search or page fetch raises  *)
(* WikipediaException emits nothing, the entities already emitted are      *)
(* unchanged, and the candidates the loop had not reached are all still    *)
(* to be resolved; when the loop is over every candidate has been handled. *)
(***************************************************************************)
Failed == pc = "next" /\ last.kind \in {"search_error", "fetch_error"}

HandledCandidates == {t.cand : t \in trace}

C12_FailureIsolation ==
    /\ Failed
         => /\ last.emitted = {}
            /\ actual_personalities = last.before
            /\ todo = personalities \ HandledCandidates
    /\ (pc = "resolve" /\ todo = {}) => HandledCandidates = personalities

\* the call for the first candidate failed and the loop went on to emit a
\* Verified entity for the second
C12_Witness ==
    /\ pc = "next"
    /\ \E t \in trace : t.emitted = {} /\ ~t.vetoed /\ t.cand # last.cand
    /\ last.kind = "verified"
    /\ last.before = {}
    /\ actual_personalities # {}

(***************************************************************************)
(* C13.  The batch never aborts: whatever a knowledge-base call or the     *)
(* processing of a document raises, no exception leaves process_dir.       *)
(* Violated: only WikipediaException is caught, around the two calls;      *)
(* process_file and process_dir have no handler.                           *)
(***************************************************************************)
C13_BatchNeverAborts == pc # "aborted"

(***************************************************************************)
(* C14.  Determinism: runs of the candidate loop on the same candidates    *)
(* against the same knowledge-base responses return equal sets, whatever   *)
(* the order in which the candidate set is iterated.                       *)
(***************************************************************************)
C14_Determinism == \A r1, r2 \in runs : r1.result = r2.result

\* two runs in different orders; one candidate's page is vetoed, the other
\* candidate is emitted
C14_Witness ==
    \E r1, r2 \in runs :
       /\ r1.order # r2.order
       /\ r1.result # {}
       /\ \E c \in personalities :
             /\ kb.search[c].raises = None
             /\ Len(kb.search[c].value) > 0
             /\ kb.page[choose_title(c, kb.search[c].value)].raises = None
             /\ page_kind(kb.page[choose_title(c, kb.search[c].value)].value) = "vetoed"

(***************************************************************************)
(* C15.  Top-K: most_common(K) returns min(K, number of keys) entries,     *)
(* each a key with its count, in non-increasing order of count; a key left *)
(* out counts no more than any entry returned; entries of equal count are  *)
(* in the order in which their keys were first folded.                     *)
(***************************************************************************)
FirstFolded(p) == Min({k \in 1..Len(collected) : collected[k] = p})

C15_TopK ==
    pc = "done"
    => LET e == top.entries
           keys == DOMAIN counter.counts
           out == {e[i][1] : i \in 1..Len(e)}
       IN  /\ Len(e) = Min({top.n, Cardinality(keys)})
           /\ Cardinality(out) = Len(e)
           /\ \A i \in 1..Len(e) :
                 e[i][1] \in keys /\ e[i][2] = counter.counts[e[i][1]]
           /\ \A i, j \in 1..Len(e) : i < j => e[i][2] >= e[j][2]
           /\ \A p \in keys \ out : \A i \in 1..Len(e) : counter.counts[p] <= e[i][2]
           /\ \A i, j \in 1..Len(e) :
                 (i < j /\ e[i][2] = e[j][2])
                    => FirstFolded(e[i][1]) < FirstFolded(e[j][1])

\* three keys, K = 2: the key folded first comes second, and ties with the
\* key left out
C15_Witness ==
    /\ pc = "done"
    /\ top.n = 2
    /\ Cardinality(DOMAIN counter.counts) = 3
    /\ Len(top.entries) = 2
    /\ top.entries[2][1] = collected[1]
    /\ top.entries[1][2] > top.entries[2][2]
    /\ \E p \in DOMAIN counter.counts :
          /\ p # top.entries[1][1] /\ p # top.entries[2][1]
          /\ counter.counts[p] = top.entries[2][2]

(***************************************************************************)
(* C16.  An empty candidate (a fact with neither first nor last) is kept   *)
(* in the candidate set, and no Personality with an empty fullname is      *)
(* emitted for it.  Violated: the loop resolves the empty candidate like   *)
(* any other, and emits Unverified("") when the search finds nothing or    *)
(* the page has no recognised category.                                    *)
(***************************************************************************)
C16_NoEmptyFullname ==
    /\ (JustExtracted /\ \E k \in 1..Len(spans) : span_out[k] = << <<>> >>)
         => <<>> \in personalities
    /\ <<>> \in personalities
         => UnverifiedPersonality(<<>>) \notin actual_personalities

(***************************************************************************)
(* C17.  Shape: every Personality of an output set or of the aggregate is  *)
(* Verified, with a type among INDIVIDUAL, COMPANY, MEDIA_GROUP and the    *)
(* url of a fetched page as source, or Unverified, with type UNVERIFIED    *)
(* and no source.                                                          *)
(***************************************************************************)
PageUrls == {id.url : id \in PageIdPool}

Shape(p) ==
    \/ /\ p.cls = "WikiPersonality"
       /\ type(p) \in VerifiedTypes
       /\ source(p) \in PageUrls
    \/ /\ p.cls = "UnverifiedPersonality"
       /\ type(p) = "UNVERIFIED"
       /\ source(p) = None

Aggregated == Range(collected) \cup DOMAIN counter.counts

C17_Shape ==
    /\ \A p \in actual_personalities \cup Aggregated : Shape(p)
    /\ \A d \in 1..Len(returned) : \A p \in returned[d] : Shape(p)
    /\ (pc = "next" /\ last.kind = "verified")
         => \A p \in last.emitted : source(p) = last.page.url

\* the aggregate holds a Verified entity of type INDIVIDUAL and an Unverified
\* entity
C17_Witness ==
    /\ pc = "done"
    /\ \E p, q \in DOMAIN counter.counts :
          /\ p.cls = "WikiPersonality" /\ type(p) = "INDIVIDUAL"
          /\ q.cls = "UnverifiedPersonality"

(***************************************************************************)
(* C18.  Monotonicity: the aggregate starts empty, and no step of a run    *)
(* removes an entity from it or lowers the count of an entity.             *)
(***************************************************************************)
Occurrences(p, list) == Cardinality({k \in 1..Len(list) : list[k] = p})

C18_Monotone ==
    /\ collected = <<>>
    /\ [][\A p \in Range(collected) :
             Occurrences(p, collected') >= Occurrences(p, collected)]_vars

\* a second document has been folded onto a first that held an entity, and
\* brought that entity again
C18_Witness ==
    /\ pc = "scan"
    /\ Len(returned) = 2
    /\ \E p \in returned[1] \cap returned[2] : Occurrences(p, collected) = 2

(***************************************************************************)
(* C19.  Only whole documents are folded: in every state, also in the      *)
(* middle of a document and after an exception has ended the run, the      *)
(* aggregate holds exactly the entities of the sets that                   *)
(* extract_personalities_from_document has returned, each set entirely.    *)
(***************************************************************************)
RECURSIVE SumCard(_, _)
SumCard(sets, d) == IF d = 0 THEN 0 ELSE Cardinality(sets[d]) + SumCard(sets, d - 1)

C19_WholeDocuments ==
    /\ Len(collected) = SumCard(returned, Len(returned))
    /\ \A p \in Range(collected) :
          Occurrences(p, collected) = Cardinality(DocumentsWith(p))
    /\ \A d \in 1..Len(returned) : returned[d] \subseteq Range(collected)
    /\ Len(collected_sets) = Len(returned)
    /\ \A d \in 1..Len(returned) : collected_sets[d] = SetItem(returned[d])

\* an exception ends the run in the middle of the second document: the
\* aggregate holds the first document's entity and nothing else
C19_Witness ==
    /\ pc = "aborted"
    /\ last.kind = "fetch"
    /\ Len(returned) = 1
    /\ Cardinality(returned[1]) = 1
    /\ Range(collected) = returned[1]

(***************************************************************************)
(* C20.  No retry: when the loop body ends for a candidate, one search     *)
(* call and at most one page call have been made for it, no page call      *)
(* when the search found nothing or failed; a candidate that has been      *)
(* handled, or whose page is being fetched, is never pending again.        *)
(***************************************************************************)
C20_NoRetry ==
    /\ pc = "next"
         => /\ last.searches = 1
            /\ last.fetches \in {0, 1}
            /\ last.kind \in {"no_results", "search_error"} => last.fetches = 0
            /\ last.cand \notin todo
    /\ todo \cap HandledCandidates = {}
    /\ pc \in {"page", "fetch"} => personality \notin todo

\* the page call for the first candidate has failed; the second candidate is
\* pending, the first is not
C20_Witness ==
    /\ pc = "next"
    /\ last.kind = "fetch_error"
    /\ last.searches = 1 /\ last.fetches = 1
    /\ todo # {}
    /\ HandledCandidates = {last.cand}

(***************************************************************************)
(* C21.  Candidate independence: whatever the order in which the           *)
(* candidates are resolved, the output set is the union of what each       *)
(* candidate yields when it is resolved alone.                             *)
(***************************************************************************)
Alone(c) == resolve_in_order(<<c>>, kb, {})

C21_Independence ==
    \A r \in runs : r.result = UNION {Alone(c) : c \in personalities}

\* a run of two candidates in which the call for the first failed and the
\* second was emitted
C21_Witness ==
    \E r \in runs :
       /\ Len(r.order) = 2
       /\ \/ kb.search[r.order[1]].raises # None
          \/ /\ Len(kb.search[r.order[1]].value) > 0
             /\ kb.page[choose_title(r.order[1], kb.search[r.order[1]].value)].raises # None
       /\ Alone(r.order[1]) = {}
       /\ Alone(r.order[2]) # {}
       /\ r.result = Alone(r.order[2])

(***************************************************************************)
(* C22.  Document-order independence: the count map (keys and counts)      *)
(* process_dir builds is the same for every order in which the documents   *)
(* are processed and folded.                                               *)
(***************************************************************************)
C22_DocumentOrder ==
    \A r1, r2 \in runs :
       /\ r1.result.error = None
       /\ DOMAIN r1.result.counts = DOMAIN r2.result.counts
       /\ \A p \in DOMAIN r1.result.counts :
             r1.result.counts[p] = r2.result.counts[p]

\* three documents folded in two different orders, an entity counted twice
C22_Witness ==
    \E r1, r2 \in runs :
       /\ Len(r1.order) = 3
       /\ r1.order[1] # r2.order[1]
       /\ returned[r1.order[1]] # returned[r2.order[1]]
       /\ \E p \in DOMAIN r1.result.counts : r1.result.counts[p] = 2

(***************************************************************************)
(* C23.  The classification of a page that is not vetoed depends on the    *)
(* set of its categories only: the same categories in any other order      *)
(* give the same emitted entity.  Violated: the last recognised category   *)
(* of the list decides the type.                                           *)
(***************************************************************************)
Reordered(page, perm) ==
    [page EXCEPT !.categories = [i \in 1..Len(perm) |-> page.categories[perm[i]]]]

C23_CategoryOrder ==
    (LastFetched /\ ~Vetoed(last.page))
    => \A perm \in Orders(1..Len(last.page.categories)) :
          page_outcome(last.cand, Reordered(last.page, perm)) = last.emitted

(***************************************************************************)
(* C24.  Each candidate contributes at most one Personality: nothing,      *)
(* Unverified(candidate) or one Verified entity; the output set never has  *)
(* more elements than there are candidates, and candidates resolving to    *)
(* the same title, url and type contribute one element.                    *)
(***************************************************************************)
C24_AtMostOne ==
    /\ \A t \in trace :
          /\ Cardinality(t.emitted) <= 1
          /\ \A p \in t.emitted :
                p.cls = "WikiPersonality" \/ p = UnverifiedPersonality(t.cand)
    /\ pc = "next" => Cardinality(last.emitted) <= 1
    /\ Cardinality(actual_personalities) <= Cardinality(HandledCandidates)
    /\ Cardinality(actual_personalities) <= Cardinality(personalities)

\* two candidates resolved to the same page: one Verified element
C24_Witness ==
    /\ pc = "next"
    /\ \E t1, t2 \in trace :
          /\ t1.cand # t2.cand
          /\ t1.emitted = t2.emitted
          /\ \E p \in t1.emitted : p.cls = "WikiPersonality"
    /\ Cardinality(actual_personalities) = 1

(***************************************************************************)
(* C25.  No candidate submitted to the search is a stop word, candidates   *)
(* built from a fact included.  Violated: only the normalized form of the  *)
(* span is looked up, the string built from the fact is not.               *)
(***************************************************************************)
Searched ==
    (IF pc \in {"page", "fetch"} THEN {personality} ELSE {})
    \cup (IF pc = "next" /\ last.searches = 1 THEN {last.cand} ELSE {})

C25_NoStopWordSearched == \A c \in Searched : c \notin STOP_WORDS

(***************************************************************************)
(* C26.  Termination: when every knowledge-base call returns or raises     *)
(* WikipediaException, a document that has been annotated is eventually    *)
(* returned, and when its loop ends every candidate has been handled, once.*)
(***************************************************************************)
InDocument == pc \in {"resolve", "page", "fetch", "next"}

C26_Termination ==
    /\ [](pc = "resolve" /\ todo = {}
            => /\ HandledCandidates = personalities
               /\ Cardinality(trace) = Cardinality(personalities))
    /\ \A n \in 0..MaxSpans :
          (InDocument /\ Len(returned) = n) ~> (pc = "scan" /\ Len(returned) = n + 1)

\* a document of two candidates has been returned with an entity for each
C26_Witness ==
    /\ pc = "scan"
    /\ Len(returned) = 1
    /\ corpus_size = 2
    /\ Cardinality(returned[1]) = 2

(***************************************************************************)
(* C27.  __parse_total_pages_num returns the largest page number of the    *)
(* pagination links, never a value below 1, and raises ValueError when    *)
(* there is no pagination link.  Violated: without links it returns -1,    *)
(* and it raises ValueError when the largest page number is 1.             *)
(***************************************************************************)
C27_TotalPages ==
    sp_pc \in {"built", "failed", "started"}
    => /\ site = <<>> => total_pages_to_parse.raises = "ValueError"
       /\ site # <<>>
            => /\ total_pages_to_parse.raises = None
               /\ total_pages_to_parse.value = Max(Range(site))
       /\ total_pages_to_parse.raises = None => total_pages_to_parse.value >= 1

(***************************************************************************)
(* C28.  HabrahabrKotlinSpider.start_requests issues one request for each  *)
(* page number from 1 up to and including the total, in ascending order.   *)
(* Violated: range(1, total) leaves the last page out.                     *)
(***************************************************************************)
C28_EveryPageRequested ==
    sp_pc = "started"
    => requests = [i \in 1..total_pages_to_parse.value |-> i]

(***************************************************************************)
(* C29.  GitHubTopicsSpider.__open_page makes at most two requests: a 429  *)
(* answer to the first is followed by one wait and one more request, whose *)
(* failure (another 429 included) is raised; any other HTTP or URL error   *)
(* is raised at once; a page is returned as soon as one is answered.       *)
(***************************************************************************)
Is429(e) == e.kind = "HTTPError" /\ e.code = 429

OpenPageDone == sp_pc \in {"returned", "raised"}

C29_RetryOnce ==
    /\ [](/\ opened.requests <= 2
          /\ opened.sleeps <= 1
          /\ sp_pc = "urlopen" /\ opened.requests = 1 => Is429(site[1])
          /\ OpenPageDone
             => /\ opened.requests = 2 <=> Is429(site[1])
                /\ opened.sleeps = opened.requests - 1
                /\ LET final == site[opened.requests]
                   IN  IF final.kind = "page"
                       THEN sp_pc = "returned" /\ opened.raises = None
                       ELSE /\ sp_pc = "raised"
                            /\ opened.raises = final.kind
                            /\ opened.code = final.code)
    /\ <>OpenPageDone

\* two 429 answers in a row, a page ready as third answer: the second 429 is
\* raised after two requests and one sleep
C29_Witness ==
    /\ sp_pc = "raised"
    /\ Is429(site[1]) /\ Is429(site[2])
    /\ site[3].kind = "page"
    /\ opened.requests = 2
    /\ opened.sleeps = 1
    /\ opened.raises = "HTTPError" /\ opened.code = 429

(***************************************************************************)
(* C30.  A page that fails to parse is isolated.  When parse() handles a   *)
(* listing all of whose article pages open, it adds to the accumulated     *)
(* list exactly the records of the links whose pages parse, in order,      *)
(* whatever the other links of the listing are; the list keeps what it     *)
(* held.                                                                   *)
(***************************************************************************)
Parsable(link) == link.page = "parsable"

RECURSIVE RecordsOf(_)
RecordsOf(links) ==
    IF links = <<>> THEN <<>>
    ELSE (IF Parsable(Head(links)) THEN <<[link |-> Head(links).href]>>
          ELSE <<>>) \o RecordsOf(Tail(links))

AllOpen(links) == \A i \in 1..Len(links) : links[i].page # "HTTPError"

C30_ParseFailureIsolated ==
    [][AllOpen(site')
       => articles_data' = articles_data \o RecordsOf(site')]_vars

=============
